---- MODULE Spec2Model ----
(***************************************************************************)
(* Model of the BlueWii daemon (src/src/main.rs, src/src/wii_remote.rs):   *)
(* the connect_and_poll thread, the timeout thread, the Mutex<WiiRemote>   *)
(* they share and the CURRENT_TIME atomic.                                  *)
(*                                                                         *)
(* Text is modelled character by character: a string is a sequence of      *)
(* one-character strings, and the parsing helpers below do what the Rust   *)
(* std functions the code calls do.  The external tools (bluetoothctl,     *)
(* xwiishow, libinput, the wall clock) are the environment: every call     *)
(* draws its output from a small set.  The tools are assumed to be         *)
(* spawnable and to print valid UTF-8.                                      *)
(***************************************************************************)
EXTENDS Integers, Sequences, FiniteSets, TLC

(***************************************************************************)
(* Bounds of the model                                                     *)
(***************************************************************************)
MaxPeriods == 1
MaxJitter == 1
MaxBatch == 4

(***************************************************************************)
(* Text helpers                                                            *)
(***************************************************************************)
\* str::contains(pat)
Contains(s, pat) ==
    \E i \in 1..(Len(s) - Len(pat) + 1) : SubSeq(s, i, i + Len(pat) - 1) = pat

\* str::split(sep) for a one-character separator: every piece, empty ones too
RECURSIVE SplitAcc(_, _, _)
SplitAcc(s, sep, cur) ==
    IF s = <<>> THEN <<cur>>
    ELSE IF Head(s) = sep THEN <<cur>> \o SplitAcc(Tail(s), sep, <<>>)
    ELSE SplitAcc(Tail(s), sep, Append(cur, Head(s)))

Split(s, sep) == SplitAcc(s, sep, <<>>)

\* Iterator::collect::<String>() over string pieces: plain concatenation
RECURSIVE Collect(_)
Collect(pieces) ==
    IF pieces = <<>> THEN <<>> ELSE Head(pieces) \o Collect(Tail(pieces))

\* Iterator::skip(n)
Skip(seq, n) == SubSeq(seq, n + 1, Len(seq))

IsWhitespace(c) == c \in {" ", "\t"}

\* str::split_whitespace(): the non-empty runs of non-whitespace characters
RECURSIVE SplitWsAcc(_, _)
SplitWsAcc(s, cur) ==
    IF s = <<>> THEN (IF cur = <<>> THEN <<>> ELSE <<cur>>)
    ELSE IF IsWhitespace(Head(s))
         THEN (IF cur = <<>> THEN <<>> ELSE <<cur>>) \o SplitWsAcc(Tail(s), <<>>)
         ELSE SplitWsAcc(Tail(s), Append(cur, Head(s)))

SplitWhitespace(s) == SplitWsAcc(s, <<>>)

StripCr(l) ==
    IF l # <<>> /\ l[Len(l)] = "\r" THEN SubSeq(l, 1, Len(l) - 1) ELSE l

\* str::lines() / BufRead::lines(): split on "\n", no final empty line,
\* a trailing "\r" of a line removed
Lines(s) ==
    LET raw == Split(s, "\n")
        kept == IF raw[Len(raw)] = <<>> THEN SubSeq(raw, 1, Len(raw) - 1) ELSE raw
    IN [i \in 1..Len(kept) |-> StripCr(kept[i])]

\* CStr::to_str(): Ok exactly when the bytes are valid UTF-8.  "\\xFF" stands
\* for a byte that can appear in no UTF-8 text.
InvalidByte == "\\xFF"
ToStrOk(bytes) == \A i \in 1..Len(bytes) : bytes[i] # InvalidByte

(***************************************************************************)
(* Sample texts of the external tools                                      *)
(***************************************************************************)
AddrA == <<"0", "A", ":", "1", "B">>
AddrB == <<"0", "C", ":", "2", "D">>
WordDevice == <<"D", "e", "v", "i", "c", "e">>
TagNew == <<"[", "N", "E", "W", "]">>
NameWii == <<"R", "V", "L", "-", "0", "3", "6">>
NameOther == <<"K", "b", "d">>
RVL == <<"R", "V", "L">>
EmptyString == <<>>

Sp(a, b) == a \o <<" ">> \o b
Ln(l) == l \o <<"\n">>

\* `bluetoothctl devices': "Device <address> <name>"
DevNone == <<>>
DevOther == Ln(Sp(Sp(WordDevice, AddrB), NameOther))
DevWii == Ln(Sp(Sp(WordDevice, AddrA), NameWii))
DevOtherWii == DevOther \o DevWii
DevWiiWii == DevWii \o Ln(Sp(Sp(WordDevice, AddrB), NameWii))
DevShort == Ln(NameWii)
DevicesOutputs == {DevNone, DevOther, DevWii, DevOtherWii, DevWiiWii, DevShort}

\* `bluetoothctl scan on': "[NEW] Device <address> <name>"
ScanNone == <<>>
ScanOther == Ln(Sp(Sp(Sp(TagNew, WordDevice), AddrB), NameOther))
ScanWii == Ln(Sp(Sp(Sp(TagNew, WordDevice), AddrA), NameWii))
ScanWiiB == Ln(Sp(Sp(Sp(TagNew, WordDevice), AddrB), NameWii))
ScanBare == Ln(Sp(Sp(WordDevice, AddrA), NameWii))
ScanTwo == ScanWii \o ScanWiiB
ScanOtherWii == ScanOther \o ScanWii
ScanShort == Ln(Sp(WordDevice, NameWii))
ScanOutputs == {ScanNone, ScanOther, ScanWii, ScanBare, ScanTwo, ScanOtherWii, ScanShort}

\* `xwiishow list'
FoundMarker == <<"F", "o", "u", "n", "d", " ", "d", "e", "v", "i", "c", "e", " ", "#", "1">>
ListHeader == <<"L", "i", "s", "t", ":">>
ListFooter == <<"E", "n", "d">>
PathPlain == <<"/", "u">>
PathColon == <<"/", "u", "/", "5", ":", "6", ".", "7">>
FoundLine(p) == <<" ", " ">> \o FoundMarker \o <<":", " ">> \o p
XwiiNone == Ln(ListHeader) \o Ln(ListFooter)
XwiiList(p) == Ln(ListHeader) \o Ln(FoundLine(p)) \o Ln(ListFooter)
ListedPaths == {PathPlain, PathColon}

\* Device paths the event bus reports for its events (udev_device_get_syspath);
\* the last one is not valid UTF-8
PathSpaced == <<" ", "/", "u">>
PathBad == <<"/", InvalidByte>>
EventPaths == {PathPlain, PathColon, PathSpaced, PathBad}

(***************************************************************************)
(* WiiRemote (src/src/wii_remote.rs)                                       *)
(***************************************************************************)
None == [some |-> FALSE, val |-> <<>>]
Some(v) == [some |-> TRUE, val |-> v]

\* Option::unwrap() of Iterator::nth(n) (n counted from 0)
NthIsSome(fields, n) == Len(fields) >= n + 1
Nth(fields, n) == fields[n + 1]

IsMatchingLine(line) == Contains(line, RVL)

\* The field of a matching line of the device listing that is_connected records
DevicesField == 1

\* WiiRemote::is_connected: the first line that contains "RVL" decides
RECURSIVE IsConnectedLoop(_, _)
IsConnectedLoop(lines, addr) ==
    IF lines = <<>> THEN [panic |-> FALSE, ret |-> FALSE, addr |-> addr]
    ELSE IF ~IsMatchingLine(Head(lines)) THEN IsConnectedLoop(Tail(lines), addr)
    ELSE LET fields == SplitWhitespace(Head(lines))
         IN IF NthIsSome(fields, 1)
            THEN [panic |-> FALSE, ret |-> TRUE, addr |-> Nth(fields, 1)]
            ELSE [panic |-> TRUE, ret |-> FALSE, addr |-> addr]

is_connected(addr, devicesOut) == IsConnectedLoop(Lines(devicesOut), addr)

\* The field of a matching discovery line that try_connect records
ScanField_AsInListing == DevicesField
ScanField == 2

\* The loop of try_connect over the lines of the scan: every matching line
\* overwrites bluetooth_address
RECURSIVE ScanLoop(_, _)
ScanLoop(lines, addr) ==
    IF lines = <<>> THEN [panic |-> FALSE, addr |-> addr]
    ELSE IF ~IsMatchingLine(Head(lines)) THEN ScanLoop(Tail(lines), addr)
    ELSE LET fields == SplitWhitespace(Head(lines))
         IN IF NthIsSome(fields, ScanField)
            THEN ScanLoop(Tail(lines), Nth(fields, ScanField))
            ELSE [panic |-> TRUE, addr |-> addr]

\* try_connect without the early return of an already connected remote
try_connect_AlwaysScans(addr, devicesOut, scanOut) ==
    LET sc == ScanLoop(Lines(scanOut), EmptyString)
    IN [panic |-> sc.panic, ret |-> ~sc.panic /\ sc.addr # EmptyString, addr |-> sc.addr,
        scans |-> 1,
        connects |-> IF ~sc.panic /\ sc.addr # EmptyString THEN <<sc.addr>> ELSE <<>>]

\* try_connect that reports failure when no candidate was found AND after
\* the connect command (what the comment before the last return suggests)
try_connect_FalseAfterConnect(addr, devicesOut, scanOut) ==
    LET ic == is_connected(addr, devicesOut)
    IN IF ic.panic \/ ic.ret
       THEN [panic |-> ic.panic, ret |-> ic.ret, addr |-> ic.addr, scans |-> 0,
             connects |-> <<>>]
       ELSE LET sc == ScanLoop(Lines(scanOut), EmptyString)
            IN [panic |-> sc.panic, ret |-> FALSE, addr |-> sc.addr, scans |-> 1,
                connects |-> IF ~sc.panic /\ sc.addr # EmptyString
                             THEN <<sc.addr>> ELSE <<>>]

\* WiiRemote::try_connect.  scans and connects list the external commands it
\* ran: one entry per `scan on', and the argument of every `connect'.  The
\* exit status of `connect' is not looked at.
try_connect(addr, devicesOut, scanOut) ==
    LET ic == is_connected(addr, devicesOut)
    IN IF ic.panic
       THEN [panic |-> TRUE, ret |-> FALSE, addr |-> ic.addr, scans |-> 0, connects |-> <<>>]
       ELSE IF ic.ret
       THEN [panic |-> FALSE, ret |-> TRUE, addr |-> ic.addr, scans |-> 0, connects |-> <<>>]
       ELSE LET sc == ScanLoop(Lines(scanOut), EmptyString)
            IN IF sc.panic
               THEN [panic |-> TRUE, ret |-> FALSE, addr |-> sc.addr, scans |-> 1,
                     connects |-> <<>>]
               ELSE IF sc.addr = EmptyString
               THEN [panic |-> FALSE, ret |-> FALSE, addr |-> sc.addr, scans |-> 1,
                     connects |-> <<>>]
               ELSE [panic |-> FALSE, ret |-> TRUE, addr |-> sc.addr, scans |-> 1,
                     connects |-> <<sc.addr>>]

\* The path get_udev_device_path makes of a "Found device #1" line
PathOfLine(line) == Collect(Skip(Split(line, ":"), 1))

\* WiiRemote::get_udev_device_path
RECURSIVE PathLoop(_)
PathLoop(lines) ==
    IF lines = <<>> THEN None
    ELSE IF ~Contains(Head(lines), FoundMarker) THEN PathLoop(Tail(lines))
    ELSE Some(PathOfLine(Head(lines)))

get_udev_device_path(xwiiOut) == PathLoop(Lines(xwiiOut))

\* Every call of the model with its result, computed once: the texts a
\* bluetooth_address can hold are the fields of the lines of the tool outputs
FieldsOf(out) ==
    UNION {{SplitWhitespace(Lines(out)[i])[j] : j \in 1..Len(SplitWhitespace(Lines(out)[i]))}
           : i \in 1..Len(Lines(out))}
AddressValues ==
    {EmptyString} \cup UNION {FieldsOf(out) : out \in DevicesOutputs \cup ScanOutputs}
TryConnectResult ==
    [addr \in AddressValues, devicesOut \in DevicesOutputs, scanOut \in ScanOutputs |->
        try_connect(addr, devicesOut, scanOut)]
XwiishowOutputs == {XwiiNone} \cup {XwiiList(p) : p \in ListedPaths}
ResolveResult == [xwiiOut \in XwiishowOutputs |-> get_udev_device_path(xwiiOut)]

(***************************************************************************)
(* main.rs: constants and wall clock                                       *)
(***************************************************************************)
MAX_RETRIES == 10
IdleThreshold == 5 * 60

\* The values the wall clock takes, in seconds since the epoch.  A negative
\* value is a clock set before the epoch: duration_since(UNIX_EPOCH) is Err.
TimeValues ==
    {k * IdleThreshold + j : k \in 0..MaxPeriods, j \in (0 - MaxJitter)..MaxJitter}

ClockReadOk(t) == t >= 0

\* u64 subtraction current_time - CURRENT_TIME when it does not overflow
\* (a build with overflow checks panics when it does)
SubOverflows(a, b) == a < b
\* ... and what a build without overflow checks computes: wrapping
\* subtraction.  U64Wrap stands for 2^64, far above every time of the model.
U64Wrap == 2 ^ 30
WrappingSub(a, b) == (a - b) % U64Wrap

IdleExpired_StrictlyLater(elapsed) == elapsed > IdleThreshold
IdleExpired_ThresholdInMinutes(elapsed) == elapsed >= IdleThreshold * 60
IdleExpired(elapsed) == elapsed >= IdleThreshold

RetriesExhausted_OneMore(r) == r > MAX_RETRIES
RetriesExhausted(r) == r >= MAX_RETRIES

\* The comparison of the dispatch loop: exact equality of the two texts
PathDiffers_Inverted(eventPath, wiiPath) == eventPath = wiiPath
PathDiffers(eventPath, wiiPath) == eventPath # wiiPath

(***************************************************************************)
(* State                                                                   *)
(***************************************************************************)
VARIABLES
    now,                \* the wall clock (environment)
    CURRENT_TIME,       \* static AtomicU64
    lock_holder,        \* Mutex<WiiRemote>: "none", "cm" or "wd"
    poisoned,           \* the mutex is poisoned: a thread panicked holding it
    bluetooth_address,  \* WiiRemote.bluetooth_address
    pc_cm,              \* position of the connect_and_poll thread
    retries,            \* connect_and_poll: let mut retries
    udev_path,          \* connect_and_poll: wii_remote_udev_device_path
    pc_wd,              \* position of the timeout thread
    tc,                 \* history: the try_connect call just made
    rp,                 \* history: the get_udev_device_path call just made
    ev,                 \* history: the events taken since the last dispatch
    tick,               \* history: the watchdog check just made
    failStreak,         \* history: try_connect calls since the last true
    fatalLogs,          \* history: times the fatal error was logged
    RUNNING,            \* static AtomicBool
    pc_main             \* position of the main thread

vars == <<now, CURRENT_TIME, lock_holder, poisoned, bluetooth_address, pc_cm,
          retries, udev_path, pc_wd, tc, rp, ev, tick, failStreak, fatalLogs,
          RUNNING, pc_main>>

cmVars == <<pc_cm, retries, udev_path, tc, rp, ev, failStreak, fatalLogs>>
wdVars == <<pc_wd, tick>>
mainVars == <<RUNNING, pc_main>>

NoCall == [called |-> FALSE, devices |-> <<>>, scan |-> <<>>, connectOk |-> TRUE,
           before |-> <<>>, ret |-> FALSE, scans |-> 0, connects |-> <<>>]
NoResolve == [called |-> FALSE, out |-> <<>>, result |-> None]
NoEvents == [handled |-> 0, matched |-> 0, wMatch |-> 0, wOther |-> 0, clockErr |-> 0]
NoTick == [read |-> "none", now |-> 0, clock |-> 0, wrapped |-> FALSE, disconnects |-> <<>>]

Init ==
    /\ now \in TimeValues
    /\ CURRENT_TIME = 0
    /\ lock_holder = "none"
    /\ poisoned = FALSE
    /\ bluetooth_address = EmptyString
    /\ pc_cm = "loop"
    /\ retries = 0
    /\ udev_path = None
    /\ pc_wd = "sleep"
    /\ tc = NoCall
    /\ rp = NoResolve
    /\ ev = NoEvents
    /\ tick = NoTick
    /\ failStreak = 0
    /\ fatalLogs = 0
    /\ RUNNING = TRUE
    /\ pc_main = "parked"

TryLockOk_IgnoresHolder == ~poisoned
\* Mutex::try_lock is Ok: nobody holds the mutex and it is not poisoned
TryLockOk == lock_holder = "none" /\ ~poisoned

(***************************************************************************)
(* The wall clock                                                          *)
(***************************************************************************)
ClockAdvance ==
    /\ \E t \in TimeValues : t > now /\ now' = t
    /\ UNCHANGED <<CURRENT_TIME, lock_holder, poisoned, bluetooth_address, cmVars, wdVars, mainVars>>

ClockRegress ==
    /\ \E t \in TimeValues : t < now /\ now' = t
    /\ UNCHANGED <<CURRENT_TIME, lock_holder, poisoned, bluetooth_address, cmVars, wdVars, mainVars>>

(***************************************************************************)
(* connect_and_poll (the ConnectionManager thread)                         *)
(***************************************************************************)
\* Top of the outer loop with the retries used up: log the error once, break
CmFatal ==
    /\ pc_cm = "loop"
    /\ RetriesExhausted(retries)
    /\ pc_cm' = "done"
    /\ fatalLogs' = fatalLogs + 1
    /\ UNCHANGED <<now, CURRENT_TIME, lock_holder, poisoned, bluetooth_address,
                   retries, udev_path, tc, rp, ev, failStreak, wdVars, mainVars>>

\* try_lock is Err (held, or poisoned): sleep 50 ms and continue
CmTryLockFail ==
    /\ pc_cm = "loop"
    /\ ~RetriesExhausted(retries)
    /\ ~TryLockOk
    /\ pc_cm' = "backoff"
    /\ UNCHANGED <<now, CURRENT_TIME, lock_holder, poisoned, bluetooth_address,
                   retries, udev_path, tc, rp, ev, failStreak, fatalLogs, wdVars, mainVars>>

CmBackoffDone ==
    /\ pc_cm = "backoff"
    /\ pc_cm' = "loop"
    /\ UNCHANGED <<now, CURRENT_TIME, lock_holder, poisoned, bluetooth_address,
                   retries, udev_path, tc, rp, ev, failStreak, fatalLogs, wdVars, mainVars>>

CmTryLockOk ==
    /\ pc_cm = "loop"
    /\ ~RetriesExhausted(retries)
    /\ TryLockOk
    /\ lock_holder' = "cm"
    /\ pc_cm' = "locked"
    /\ rp' = NoResolve
    /\ UNCHANGED <<now, CURRENT_TIME, poisoned, bluetooth_address, retries,
                   udev_path, tc, ev, failStreak, fatalLogs, wdVars, mainVars>>

\* wii_remote.try_connect() and the branch on its result.  A panic inside it
\* unwinds the thread: the guard is dropped and the mutex is poisoned.
CmTryConnect ==
    /\ pc_cm = "locked"
    /\ \E devicesOut \in DevicesOutputs, scanOut \in ScanOutputs, connectOk \in BOOLEAN :
       \E r \in {TryConnectResult[bluetooth_address, devicesOut, scanOut]} :
         LET ranScan == r.scans > 0
             ranConnect == r.connects # <<>>
             call == [called |-> TRUE, devices |-> devicesOut,
                      scan |-> IF ranScan THEN scanOut ELSE <<>>,
                      connectOk |-> IF ranConnect THEN connectOk ELSE TRUE,
                      before |-> bluetooth_address,
                      ret |-> r.ret, scans |-> r.scans, connects |-> r.connects]
         IN \* the output of a command that is not run is not an input
            /\ (~ranScan => scanOut = ScanNone)
            /\ (~ranConnect => connectOk)
            /\ bluetooth_address' = r.addr
            /\ IF r.panic
               THEN /\ pc_cm' = "panic_nth"
                    /\ lock_holder' = "none"
                    /\ poisoned' = TRUE
                    /\ tc' = NoCall
                    /\ UNCHANGED <<retries, failStreak>>
               ELSE IF ~r.ret
               THEN /\ retries' = retries + 1
                    /\ failStreak' = failStreak + 1
                    /\ pc_cm' = "retry_sleep"
                    /\ tc' = call
                    /\ UNCHANGED <<lock_holder, poisoned>>
               ELSE /\ retries' = 0
                    /\ failStreak' = 0
                    /\ pc_cm' = "connected"
                    /\ tc' = call
                    /\ UNCHANGED <<lock_holder, poisoned>>
    /\ UNCHANGED <<now, CURRENT_TIME, udev_path, rp, ev, fatalLogs, wdVars, mainVars>>

\* After the 1 s sleep of a failed attempt: continue, which drops the guard
CmRetrySleepDone ==
    /\ pc_cm = "retry_sleep"
    /\ lock_holder' = "none"
    /\ pc_cm' = "loop"
    /\ tc' = NoCall
    /\ UNCHANGED <<now, CURRENT_TIME, poisoned, bluetooth_address, retries,
                   udev_path, rp, ev, failStreak, fatalLogs, wdVars, mainVars>>

\* wii_remote.get_udev_device_path(): None continues (guard dropped), Some
\* enters the dispatch loop with the guard still held
CmResolvePath ==
    /\ pc_cm = "connected"
    /\ \E xwiiOut \in XwiishowOutputs :
       \E r \in {ResolveResult[xwiiOut]} :
            /\ rp' = [called |-> TRUE, out |-> xwiiOut, result |-> r]
            /\ IF r.some
               THEN /\ udev_path' = r
                    /\ pc_cm' = "dispatch"
                    /\ UNCHANGED lock_holder
               ELSE /\ udev_path' = None
                    /\ pc_cm' = "loop"
                    /\ lock_holder' = "none"
    /\ tc' = NoCall
    /\ UNCHANGED <<now, CURRENT_TIME, poisoned, bluetooth_address, retries,
                   ev, failStreak, fatalLogs, wdVars, mainVars>>

DispatchRets == {0, -1}

\* CmDispatch with the resolved path kept across the break
CmDispatch_KeepsPath ==
    /\ pc_cm = "dispatch"
    /\ \E ret \in DispatchRets :
         IF ret # 0
         THEN /\ pc_cm' = "loop"
              /\ lock_holder' = "none"
              /\ UNCHANGED <<udev_path, rp>>
         ELSE /\ pc_cm' = "events"
              /\ UNCHANGED <<lock_holder, udev_path, rp>>
    /\ ev' = NoEvents
    /\ UNCHANGED <<now, CURRENT_TIME, poisoned, bluetooth_address, retries,
                   tc, failStreak, fatalLogs, wdVars, mainVars>>

\* libinput_dispatch: non-zero breaks out of the dispatch loop to the top of
\* the outer loop (the guard and the path go out of scope)
CmDispatch ==
    /\ pc_cm = "dispatch"
    /\ \E ret \in DispatchRets :
         IF ret # 0
         THEN /\ pc_cm' = "loop"
              /\ lock_holder' = "none"
              /\ udev_path' = None
              /\ rp' = NoResolve
         ELSE /\ pc_cm' = "events"
              /\ UNCHANGED <<lock_holder, udev_path, rp>>
    /\ ev' = NoEvents
    /\ UNCHANGED <<now, CURRENT_TIME, poisoned, bluetooth_address, retries,
                   tc, failStreak, fatalLogs, wdVars, mainVars>>

NullEvent == <<>>

\* One turn of the inner loop: libinput_get_event and the handling of the event
CmGetEvent ==
    /\ pc_cm = "events"
    /\ \E e \in EventPaths \cup {NullEvent} :
         IF e = NullEvent
         THEN /\ pc_cm' = "dispatch"
              /\ ev' = NoEvents
              /\ UNCHANGED <<CURRENT_TIME, lock_holder, poisoned>>
         ELSE /\ ev.handled < MaxBatch
              /\ IF ~ToStrOk(e)
                 THEN /\ pc_cm' = "panic_to_str"
                      /\ lock_holder' = "none"
                      /\ poisoned' = TRUE
                      /\ ev' = NoEvents
                      /\ UNCHANGED CURRENT_TIME
                 ELSE LET skipped == PathDiffers(e, udev_path.val)
                          stored == ~skipped /\ ClockReadOk(now)
                          same == e = udev_path.val
                      IN /\ CURRENT_TIME' = IF stored THEN now ELSE CURRENT_TIME
                         /\ ev' = [handled |-> ev.handled + 1,
                                   matched |-> ev.matched + (IF same THEN 1 ELSE 0),
                                   wMatch |-> ev.wMatch
                                              + (IF stored /\ same THEN 1 ELSE 0),
                                   wOther |-> ev.wOther
                                              + (IF stored /\ ~same THEN 1 ELSE 0),
                                   clockErr |-> ev.clockErr
                                              + (IF same /\ ~ClockReadOk(now) THEN 1 ELSE 0)]
                         /\ UNCHANGED <<pc_cm, lock_holder, poisoned>>
    /\ UNCHANGED <<now, bluetooth_address, retries, udev_path, tc, rp,
                   failStreak, fatalLogs, wdVars, mainVars>>

(***************************************************************************)
(* timeout (the IdleWatchdog thread)                                       *)
(***************************************************************************)
\* thread::sleep(1 s) is over
WdWake ==
    /\ pc_wd = "sleep"
    /\ pc_wd' = "woke"
    /\ UNCHANGED <<now, CURRENT_TIME, lock_holder, poisoned, bluetooth_address,
                   tick, cmVars, mainVars>>

\* try_lock is Err: skip this tick
WdTryLockFail ==
    /\ pc_wd = "woke"
    /\ ~TryLockOk
    /\ pc_wd' = "sleep"
    /\ UNCHANGED <<now, CURRENT_TIME, lock_holder, poisoned, bluetooth_address,
                   tick, cmVars, mainVars>>

WdTryLockOk ==
    /\ pc_wd = "woke"
    /\ TryLockOk
    /\ lock_holder' = "wd"
    /\ pc_wd' = "locked"
    /\ UNCHANGED <<now, CURRENT_TIME, poisoned, bluetooth_address, tick, cmVars, mainVars>>

OverflowOutcomes == {"panic", "wrap"}

\* The clock read, the subtraction, the comparison and disconnect().  A
\* subtraction that overflows panics or wraps, as the build has it.
WdCheck ==
    /\ pc_wd = "locked"
    /\ IF ~ClockReadOk(now)
       THEN /\ tick' = [NoTick EXCEPT !.read = "err"]
            /\ pc_wd' = "checked"
            /\ UNCHANGED <<lock_holder, poisoned>>
       ELSE \E outcome \in OverflowOutcomes :
              LET overflows == SubOverflows(now, CURRENT_TIME)
                  elapsed_time == WrappingSub(now, CURRENT_TIME)
              IN /\ (~overflows => outcome = "wrap")
                 /\ IF overflows /\ outcome = "panic"
                    THEN /\ pc_wd' = "panic_overflow"
                         /\ lock_holder' = "none"
                         /\ poisoned' = TRUE
                         /\ tick' = NoTick
                    ELSE /\ tick' = [read |-> "ok", now |-> now, clock |-> CURRENT_TIME,
                                     wrapped |-> overflows,
                                     disconnects |-> IF IdleExpired(elapsed_time)
                                                     THEN <<bluetooth_address>>
                                                     ELSE <<>>]
                         /\ pc_wd' = "checked"
                         /\ UNCHANGED <<lock_holder, poisoned>>
    /\ UNCHANGED <<now, CURRENT_TIME, bluetooth_address, cmVars, mainVars>>

\* End of the loop body: the guard is dropped
WdRelease ==
    /\ pc_wd = "checked"
    /\ lock_holder' = "none"
    /\ pc_wd' = "sleep"
    /\ tick' = NoTick
    /\ UNCHANGED <<now, CURRENT_TIME, poisoned, bluetooth_address, cmVars, mainVars>>

(***************************************************************************)
(* main, after it spawned the two threads                                  *)
(***************************************************************************)
\* thread::park() returns (it may do so at any time): the loop tests RUNNING,
\* parks again while it is true and goes on to shut down when it is false.
\* Nothing in the program stores to RUNNING.
MainWake ==
    /\ pc_main = "parked"
    /\ pc_main' = IF RUNNING THEN "parked" ELSE "shutdown"
    /\ UNCHANGED <<now, CURRENT_TIME, lock_holder, poisoned, bluetooth_address,
                   RUNNING, cmVars, wdVars>>

(***************************************************************************)
(* Specifications                                                          *)
(***************************************************************************)
CmStep ==
    \/ CmFatal
    \/ CmTryLockFail
    \/ CmBackoffDone
    \/ CmTryLockOk
    \/ CmTryConnect
    \/ CmRetrySleepDone
    \/ CmResolvePath
    \/ CmDispatch
    \/ CmGetEvent

WdStep ==
    \/ WdWake
    \/ WdTryLockFail
    \/ WdTryLockOk
    \/ WdCheck
    \/ WdRelease

Next ==
    \/ ClockAdvance
    \/ ClockRegress
    \/ CmFatal
    \/ CmTryLockFail
    \/ CmBackoffDone
    \/ CmTryLockOk
    \/ CmTryConnect
    \/ CmRetrySleepDone
    \/ CmResolvePath
    \/ CmDispatch
    \/ CmGetEvent
    \/ WdWake
    \/ WdTryLockFail
    \/ WdTryLockOk
    \/ WdCheck
    \/ WdRelease
    \/ MainWake

Spec == Init /\ [][Next]_vars

\* Both threads keep running, and a thread that finds the mutex free again
\* and again gets it in the end.
FairSpec ==
    /\ Spec
    /\ WF_vars(CmStep)
    /\ WF_vars(WdStep)
    /\ SF_vars(CmTryLockOk)
    /\ SF_vars(WdTryLockOk)

TypeOK ==
    /\ now \in TimeValues
    /\ CURRENT_TIME \in Nat
    /\ lock_holder \in {"none", "cm", "wd"}
    /\ poisoned \in BOOLEAN
    /\ retries \in 0..MAX_RETRIES
    /\ pc_cm \in {"loop", "backoff", "locked", "retry_sleep", "connected", "dispatch",
                  "events", "done", "panic_nth", "panic_to_str"}
    /\ pc_wd \in {"sleep", "woke", "locked", "checked", "panic_overflow"}
    /\ RUNNING \in BOOLEAN
    /\ pc_main \in {"parked", "shutdown"}

(***************************************************************************)
(* Properties                                                              *)
(***************************************************************************)
InDispatch == pc_cm \in {"dispatch", "events"}
Idle == ClockReadOk(now) /\ now - CURRENT_TIME >= 300
WdDisconnected == tick.read = "ok" /\ tick.disconnects # <<>>
MatchingLines(out) == SelectSeq(Lines(out), LAMBDA l : Contains(l, RVL))

\* C1: a session that stays in the dispatch loop and stays idle (no matching
\* event, 300 s or more since the ActivityClock) is disconnected by some
\* later watchdog tick.
C1_IdleDisconnect ==
    (InDispatch /\ Idle) ~> (WdDisconnected \/ ~InDispatch \/ ~Idle)

\* C2: a watchdog tick that got the session and read the clock, with the
\* ActivityClock not after the clock, invokes disconnect exactly once when
\* now - ActivityClock >= 300 and not at all when it is <= 299.
C2_IdleThreshold ==
    (tick.read = "ok" /\ tick.clock <= tick.now) =>
        /\ (tick.now - tick.clock >= 300 => Len(tick.disconnects) = 1)
        /\ (tick.now - tick.clock <= 299 => Len(tick.disconnects) = 0)

C2_Witness ==
    /\ tick.read = "ok"
    /\ tick.clock > 0
    /\ tick.now - tick.clock = 300
    /\ Len(tick.disconnects) = 1

\* C3: the manager stops after exactly 10 try_connect calls in a row that
\* returned false, logs the fatal error exactly once, does nothing after it
\* stopped, and a failed lock acquisition does not count as an attempt.
C3_RetryCeiling ==
    /\ [](pc_cm = "done" => failStreak = 10)
    /\ [](fatalLogs = IF pc_cm = "done" THEN 1 ELSE 0)
    /\ [][pc_cm = "done" => UNCHANGED cmVars]_vars
    /\ [][pc_cm = "loop" /\ pc_cm' = "backoff" => UNCHANGED <<retries, failStreak>>]_vars

C3_Witness == pc_cm = "done" /\ failStreak = 10 /\ fatalLogs = 1 /\ lock_holder = "none"

\* C4: once the session is free, a task that is waiting for it gets it in
\* the end (the watchdog at one of its ticks, the manager at one of its
\* attempts).
C4_LockSkipLiveness ==
    /\ (lock_holder = "none" /\ pc_wd \in {"sleep", "woke"}) ~> (lock_holder = "wd")
    /\ (lock_holder = "none" /\ pc_cm \in {"loop", "backoff"} /\ retries < 10)
           ~> (lock_holder = "cm")

\* C5 as stated: in the dispatch loop the ActivityClock is written once for
\* every event whose path equals the resolved path and for no other event.
C5_WrittenForEveryMatch == ev.wMatch = ev.matched /\ ev.wOther = 0

\* C5 as amended: the ActivityClock is written once for every event whose
\* path equals the resolved path and at which the clock read succeeds, and
\* for no other event.
C5_PathFiltering == ev.wMatch = ev.matched - ev.clockErr /\ ev.wOther = 0

C5_Witness ==
    /\ pc_cm = "events"
    /\ ev.handled = 4
    /\ ev.matched = 2
    /\ ev.wMatch = 2
    /\ ev.clockErr = 0

\* The call just made ran a scan whose output has exactly one matching
\* line, made of the given fields around the identity x
OneMatchOfForm(before, x, after) ==
    /\ tc.called
    /\ MatchingLines(tc.devices) = <<>>
    /\ Len(MatchingLines(tc.scan)) = 1
    /\ SplitWhitespace(MatchingLines(tc.scan)[1]) = before \o <<x>> \o after

Identities == {AddrA, AddrB}

\* C6 as stated: after a discovery with exactly one matching line
\* "Device <X> RVL-036", try_connect has recorded X, has invoked connect
\* with X and has returned true, whatever the outcome of connect.
C6_BareDeviceLine ==
    \A x \in Identities :
        OneMatchOfForm(<<WordDevice>>, x, <<NameWii>>) =>
            bluetooth_address = x /\ tc.connects = <<x>> /\ tc.ret

\* C6 as amended: the same for a matching line "[NEW] Device <X> RVL-036",
\* where the identity is the third whitespace-separated field.
C6_DiscoveryIdentity ==
    \A x \in Identities :
        OneMatchOfForm(<<TagNew, WordDevice>>, x, <<NameWii>>) =>
            bluetooth_address = x /\ tc.connects = <<x>> /\ tc.ret

C6_Witness ==
    /\ OneMatchOfForm(<<TagNew, WordDevice>>, AddrA, <<NameWii>>)
    /\ ~tc.connectOk
    /\ bluetooth_address = AddrA
    /\ tc.connects = <<AddrA>>
    /\ tc.ret

\* C7: get_udev_device_path returns the listed path character for
\* character, and none when no device is listed.
C7_PathResolution ==
    rp.called =>
        /\ \A p \in ListedPaths : rp.out = XwiiList(p) => rp.result = Some(p)
        /\ rp.out = XwiiNone => rp.result = None

C10_MalformedEventNonFatal == pc_cm # "panic_to_str"

\* C11: the value stored in the ActivityClock never decreases (an event at
\* which the wall clock is behind the stored value does not lower it).
C11_ClockMonotonic == [][CURRENT_TIME' >= CURRENT_TIME]_vars

CmHolds == pc_cm \in {"locked", "retry_sleep", "connected", "dispatch", "events"}
WdHolds == pc_wd \in {"locked", "checked"}

\* C12: the filter key of the dispatch loop is the path returned by the
\* resolution of the same loop iteration, which followed that iteration's
\* successful try_connect; it does not change inside the loop, and it is
\* discarded when the loop is left, so that no earlier path is held when
\* the manager is back at lock acquisition.
C12_EpochOrdering ==
    /\ [](InDispatch => /\ rp.called
                        /\ rp.result = get_udev_device_path(rp.out)
                        /\ udev_path = rp.result
                        /\ udev_path.some)
    /\ [](pc_cm \in {"loop", "backoff", "locked", "retry_sleep", "connected"}
            => udev_path = None)
    /\ [][~InDispatch /\ InDispatch' =>
            pc_cm = "connected" /\ tc.called /\ tc.ret /\ ~rp.called]_vars
    /\ [][InDispatch /\ InDispatch' => udev_path' = udev_path]_vars
    /\ [][InDispatch /\ ~InDispatch' =>
            pc_cm' \in {"loop", "panic_to_str"} /\ lock_holder' = "none"]_vars

C12_Witness ==
    /\ pc_cm = "events"
    /\ ev.matched > 0
    /\ ev.handled > ev.matched
    /\ rp.out = XwiiList(PathPlain)
    /\ udev_path = Some(PathSpaced)
    /\ CURRENT_TIME > 0

\* C13: the two threads never hold the session together, and try_connect
\* (with its is_connected), get_udev_device_path and disconnect are called
\* only by the thread that holds it.
C13_MutualExclusion ==
    /\ [](~(CmHolds /\ WdHolds))
    /\ [](CmHolds => lock_holder = "cm")
    /\ [](WdHolds => lock_holder = "wd")
    /\ [][(\/ bluetooth_address' # bluetooth_address
           \/ (tc' # tc /\ tc'.called)
           \/ (rp' # rp /\ rp'.called))
          => lock_holder = "cm" /\ ~WdHolds]_vars
    /\ [][(tick' # tick /\ tick'.read # "none") => lock_holder = "wd" /\ ~CmHolds]_vars

C13_Witness ==
    /\ pc_wd = "checked"
    /\ tick.disconnects # <<>>
    /\ lock_holder = "wd"
    /\ pc_cm = "backoff"

\* C14: once connect_and_poll has stopped at the retry ceiling, RUNNING
\* stays true, main stays parked, the watchdog thread stays alive, and its
\* try_lock never fails again.
C14_AliveAfterCeiling ==
    /\ [](pc_cm = "done" => RUNNING /\ pc_main = "parked")
    /\ [](pc_cm = "done" => pc_wd # "panic_overflow")
    /\ [][pc_cm = "done" /\ pc_wd = "woke" => pc_wd' # "sleep"]_vars

\* C15: after a discovery with several matching lines, try_connect has
\* recorded the identity of the first of them and has invoked connect with
\* that identity.
C15_FirstMatchWins ==
    (/\ tc.called
     /\ MatchingLines(tc.devices) = <<>>
     /\ Len(MatchingLines(tc.scan)) >= 2) =>
        LET first == SplitWhitespace(MatchingLines(tc.scan)[1])[3]
        IN bluetooth_address = first /\ tc.connects = <<first>>

\* C16: the manager does not go on for ever retrying the path resolution:
\* if it comes back to ConnectedNoPath (a successful try_connect, path not
\* yet resolved) again and again, then again and again it gets to the
\* dispatch loop or leaves for Disconnected (a try_connect that fails).
C16_ResolutionRetryBounded ==
    []<>(pc_cm = "connected") => []<>(InDispatch \/ pc_cm = "retry_sleep")

\* C17 as stated: while the ActivityClock is 0, every watchdog tick that got
\* the session and read the clock invokes disconnect.
C17_NeverSetIsIdle ==
    (tick.read = "ok" /\ tick.clock = 0) => Len(tick.disconnects) = 1

\* C17 as amended: the same for every tick at which the clock read is at
\* least 300 s after the epoch.
C17_NeverSetIsIdleAfter300 ==
    (tick.read = "ok" /\ tick.clock = 0 /\ tick.now >= 300) => Len(tick.disconnects) = 1

C17_Witness ==
    /\ tick.read = "ok"
    /\ tick.clock = 0
    /\ tick.now >= 300
    /\ tick.disconnects = <<EmptyString>>
    /\ pc_cm = "loop"
    /\ retries = 0

\* C18: at every watchdog tick that gets to the subtraction the ActivityClock
\* is not after the clock just read: the subtraction neither wraps nor
\* panics.
C18_NoUnderflow ==
    /\ pc_wd # "panic_overflow"
    /\ (tick.read = "ok" => tick.clock <= tick.now /\ ~tick.wrapped)

\* C19: disconnect is never invoked with the empty identity.
C19_DisconnectIdentity ==
    tick.read = "ok" =>
        \A i \in 1..Len(tick.disconnects) : tick.disconnects[i] # EmptyString

\* C20: after a thread has panicked while it held the session, the try_lock
\* of the other thread succeeds in the end.
C20_SurvivorAcquires ==
    /\ (pc_cm \in {"panic_nth", "panic_to_str"}) ~> (lock_holder = "wd")
    /\ (pc_wd = "panic_overflow" /\ pc_cm \in {"loop", "backoff"} /\ retries < 10)
           ~> (lock_holder = "cm")

====
